---------------------------- MODULE Spec2Model ----------------------------
(***************************************************************************)
(* Model of andrewmilson/experimentation: modular integer arithmetic       *)
(* emulated in floating-point registers (src/src/arithmetic.rs), and the   *)
(* 21-bit pseudo-Mersenne field (src/src/fp20.rs).                         *)
(*                                                                         *)
(* The program is a library of pure functions.  Each function is an        *)
(* operator computed as the code computes it: every floating-point         *)
(* operation is the exact real operation followed by IEEE-754 rounding     *)
(* (round to nearest, ties to even) to the significand of its format.      *)
(* Native integers and significands are wider than TLC's integers, so      *)
(* they are kept as digit sequences (least significant digit first).       *)
(***************************************************************************)
EXTENDS Integers, Sequences, FiniteSets, TLC

(***************************************************************************)
(* Natural numbers of any width: sequences of digits in radix 2^15, least  *)
(* significant first, no leading zero digit; <<>> is zero.                 *)
(***************************************************************************)
DigitBits == 3 * 5   \* a digit product fits a 32-bit integer
Base == 2^DigitBits

Min2(i, j) == IF i <= j THEN i ELSE j
Max2(i, j) == IF i >= j THEN i ELSE j

RECURSIVE NatTrim(_)
NatTrim(s) ==
    IF s = <<>> THEN s
    ELSE IF s[Len(s)] = 0 THEN NatTrim(SubSeq(s, 1, Len(s) - 1))
    ELSE s

\* a TLC integer 0 <= n < 2^31 as a natural
N(n) == NatTrim(<<n % Base, (n \div Base) % Base, n \div (Base * Base)>>)

Zero == <<>>
One == <<1>>

\* the TLC integer of a natural below 2^31
RECURSIVE NatToInt(_)
NatToInt(s) == IF s = <<>> THEN 0 ELSE Head(s) + Base * NatToInt(Tail(s))

RECURSIVE NatAddC(_, _, _)
NatAddC(a, b, c) ==
    IF b = <<>> /\ c = 0 THEN a
    ELSE IF a = <<>> /\ c = 0 THEN b
    ELSE LET da == IF a = <<>> THEN 0 ELSE Head(a)
             db == IF b = <<>> THEN 0 ELSE Head(b)
             t  == da + db + c
         IN  <<t % Base>> \o NatAddC(IF a = <<>> THEN a ELSE Tail(a),
                                      IF b = <<>> THEN b ELSE Tail(b),
                                      t \div Base)

NatAdd(a, b) == NatAddC(a, b, 0)

\* a - b for a >= b
RECURSIVE NatSubB(_, _, _)
NatSubB(a, b, c) ==
    IF b = <<>> /\ c = 0 THEN a
    ELSE LET db == IF b = <<>> THEN 0 ELSE Head(b)
             t  == Head(a) - db - c
         IN  <<IF t < 0 THEN t + Base ELSE t>>
                 \o NatSubB(Tail(a), IF b = <<>> THEN b ELSE Tail(b),
                            IF t < 0 THEN 1 ELSE 0)

NatSub(a, b) == NatTrim(NatSubB(a, b, 0))

RECURSIVE NatCmpAt(_, _, _)
NatCmpAt(a, b, i) ==
    IF i = 0 THEN 0
    ELSE IF a[i] > b[i] THEN 1
    ELSE IF a[i] < b[i] THEN -1
    ELSE NatCmpAt(a, b, i - 1)

\* -1, 0, 1 as a < b, a = b, a > b
NatCmp(a, b) ==
    IF Len(a) > Len(b) THEN 1
    ELSE IF Len(a) < Len(b) THEN -1
    ELSE NatCmpAt(a, b, Len(a))

NatLess(a, b) == NatCmp(a, b) = -1
NatLeq(a, b) == NatCmp(a, b) # 1

RECURSIVE NatMulDigit(_, _, _)
NatMulDigit(a, d, c) ==
    IF a = <<>> THEN (IF c = 0 THEN <<>> ELSE <<c>>)
    ELSE LET t == Head(a) * d + c
         IN  <<t % Base>> \o NatMulDigit(Tail(a), d, t \div Base)

RECURSIVE NatMul(_, _)
NatMul(a, b) ==
    IF a = <<>> \/ b = <<>> THEN <<>>
    ELSE IF Len(a) = 1 THEN NatMulDigit(b, a[1], 0)
    ELSE NatAdd(NatMulDigit(b, a[1], 0), <<0>> \o NatMul(Tail(a), b))

\* number of bits of a: 0 for zero, else k with 2^(k-1) <= a < 2^k
NatBitLen(a) ==
    IF a = <<>> THEN 0
    ELSE DigitBits * (Len(a) - 1)
           + (CHOOSE k \in 1..DigitBits : 2^(k-1) <= a[Len(a)] /\ a[Len(a)] < 2^k)

\* floor(a / 2^k)
NatShr(a, k) ==
    IF k \div DigitBits >= Len(a) THEN <<>>
    ELSE NatTrim([i \in 1..(Len(a) - (k \div DigitBits)) |->
             (a[i + (k \div DigitBits)] \div 2^(k % DigitBits))
               + (IF i + (k \div DigitBits) + 1 <= Len(a)
                  THEN (a[i + (k \div DigitBits) + 1] % 2^(k % DigitBits))
                         * 2^(DigitBits - (k % DigitBits))
                  ELSE 0)])

\* a * 2^k
NatShl(a, k) ==
    IF a = <<>> THEN <<>>
    ELSE NatTrim([i \in 1..(Len(a) + (k \div DigitBits) + 1) |->
             (IF 1 <= i - (k \div DigitBits) /\ i - (k \div DigitBits) <= Len(a)
              THEN (a[i - (k \div DigitBits)] % 2^(DigitBits - (k % DigitBits)))
                     * 2^(k % DigitBits)
              ELSE 0)
               + (IF 2 <= i - (k \div DigitBits) /\ i - (k \div DigitBits) <= Len(a) + 1
                  THEN a[i - (k \div DigitBits) - 1] \div 2^(DigitBits - (k % DigitBits))
                  ELSE 0)])

\* a mod 2^k
NatLow(a, k) ==
    IF k \div DigitBits >= Len(a) THEN a
    ELSE NatTrim([i \in 1..((k \div DigitBits) + 1) |->
             IF i <= k \div DigitBits THEN a[i] ELSE a[i] % 2^(k % DigitBits)])

\* bit k of a (bit 0 is the least significant)
NatBit(a, k) ==
    IF k \div DigitBits >= Len(a) THEN 0
    ELSE (a[(k \div DigitBits) + 1] \div 2^(k % DigitBits)) % 2

\* number of trailing zero bits of a # 0, whose lowest non-zero digit is digit i
NatTrailingZeros(a) ==
    LET i == CHOOSE j \in 1..Len(a) : a[j] # 0 /\ \A h \in 1..(j - 1) : a[h] = 0
    IN  DigitBits * (i - 1)
          + (CHOOSE k \in 0..(DigitBits - 1) :
                 a[i] % 2^k = 0 /\ (a[i] \div 2^k) % 2 = 1)

NatPow2(k) == NatShl(One, k)

\* One digit of a short division: <<quotient digit, remainder>> of r * Base + dg
\* by the integer d, 0 <= r < d < 2^26, taken five bits at a time so that no
\* intermediate value leaves 32 bits.
DigitDivMod(dg, r, d) ==
    LET t2 == (r * 32) + (dg \div 1024)
        t1 == ((t2 % d) * 32) + ((dg \div 32) % 32)
        t0 == ((t1 % d) * 32) + (dg % 32)
    IN  <<((t2 \div d) * 1024) + ((t1 \div d) * 32) + (t0 \div d), t0 % d>>

\* the remainder by d of the digits of a above digit i
RECURSIVE NatRemAbove(_, _, _)
NatRemAbove(a, d, i) ==
    IF i >= Len(a) THEN 0
    ELSE DigitDivMod(a[i + 1], NatRemAbove(a, d, i + 1), d)[2]

\* floor(a / d) as a natural and a mod d as an integer, for an integer 0 < d < 2^26
NatDiv(a, d) ==
    NatTrim([i \in 1..Len(a) |-> DigitDivMod(a[i], NatRemAbove(a, d, i), d)[1]])
NatMod(a, d) == NatRemAbove(a, d, 0)

(***************************************************************************)
(* Floating point.  A finite value is (-1)^neg * m * 2^e with m a natural  *)
(* that is odd, or zero with neg = FALSE and e = 0: equal values are equal *)
(* records (the code never tells -0.0 from 0.0: it compares with >=, <     *)
(* and ==, and casts).  A format is its significand width p and its        *)
(* exponent range.  An operation of the code is the exact operation        *)
(* followed by Round, as IEEE-754 defines it.                              *)
(***************************************************************************)
F16 == [p |-> 11, emin |-> -14, emax |-> 15]
F32 == [p |-> 24, emin |-> -126, emax |-> 127]
F64 == [p |-> 53, emin |-> -1022, emax |-> 1023]

Fl(neg, m, e) ==
    IF m = <<>> THEN [neg |-> FALSE, m |-> <<>>, e |-> 0]
    ELSE [neg |-> neg, m |-> NatShr(m, NatTrailingZeros(m)),
          e |-> e + NatTrailingZeros(m)]

\* the natural n as a real, before any rounding
FInt(n) == Fl(FALSE, n, 0)
FZero == FInt(Zero)
FOne == FInt(One)

\* r, or the overflowed result when r is beyond the largest finite value of
\* format f.  The overflowed result has no significand: arithmetic on it is an
\* error of the model, never a silent value.
Finite(r, f) ==
    IF r.m # <<>> /\ r.e + NatBitLen(r.m) - 1 > f.emax THEN [inf |-> TRUE] ELSE r

\* x with the k >= 1 low bits of its significand dropped, kept being the bits
\* kept and q the exponent of the last place kept.  m is odd, so the dropped
\* part is exactly half a unit only when k = 1.
RoundDrop(x, q, k, kept) ==
    Fl(x.neg,
       IF (IF k = 1 THEN NatBit(kept, 0) = 1 ELSE NatBit(x.m, k - 1) = 1)
       THEN NatAdd(kept, One) ELSE kept,
       q)

\* x # 0 rounded to nearest, ties to even, with last place 2^q
RoundAt(x, q) ==
    IF q <= x.e THEN x ELSE RoundDrop(x, q, q - x.e, NatShr(x.m, q - x.e))

\* Round to nearest, ties to even, in format f: the last place of the result
\* is p - 1 bits below the leading bit of x, and not below the subnormal
\* spacing 2^(emin - p + 1).
Round(x, f) ==
    IF x.m = <<>> THEN x
    ELSE Finite(RoundAt(x, Max2(x.e + NatBitLen(x.m) - f.p, f.emin - f.p + 1)), f)

ExactMul(x, y) == Fl(x.neg # y.neg, NatMul(x.m, y.m), x.e + y.e)

\* (-1)^xneg * a * 2^e + (-1)^yneg * b * 2^e
AddAligned(xneg, a, yneg, b, e) ==
    IF xneg = yneg THEN Fl(xneg, NatAdd(a, b), e)
    ELSE IF NatLeq(b, a) THEN Fl(xneg, NatSub(a, b), e)
    ELSE Fl(yneg, NatSub(b, a), e)

ExactAdd(x, y) ==
    IF x.m = <<>> THEN y
    ELSE IF y.m = <<>> THEN x
    ELSE AddAligned(x.neg, NatShl(x.m, x.e - Min2(x.e, y.e)),
                    y.neg, NatShl(y.m, y.e - Min2(x.e, y.e)),
                    Min2(x.e, y.e))

\* -x
FNeg(x) == IF x.m = <<>> THEN x ELSE [x EXCEPT !.neg = ~x.neg]

\* x < y, x >= y
FLess(x, y) == ExactAdd(x, FNeg(y)).neg
FGeq(x, y) == ~FLess(x, y)

\* x * y, x + y, x - y, a.mul_add(b, c) in format f
FMul(x, y, f) == Round(ExactMul(x, y), f)
FAdd(x, y, f) == Round(ExactAdd(x, y), f)
FSub(x, y, f) == Round(ExactAdd(x, FNeg(y)), f)
FMulAdd(a, b, c, f) == Round(ExactAdd(ExactMul(a, b), c), f)

\* x / y for y with odd significand d > 1, from n = x.m * 2^s: the quotient of
\* the significands and a sticky bit that tells whether it is inexact
DivSticky(x, y, s, n, d) ==
    Fl(x.neg # y.neg,
       NatAddC(NatShl(NatDiv(n, d), 1), Zero, IF NatMod(n, d) = 0 THEN 0 ELSE 1),
       x.e - y.e - s - 1)

DivShifted(x, y, s) == DivSticky(x, y, s, NatShl(x.m, s), NatToInt(y.m))

\* x / y in format f, for a divisor whose odd significand is below 2^26 (the
\* code divides by powers of two and by the field modulus).  The quotient of
\* the significands is taken to p + 2 bits and a sticky bit, which is all that
\* rounding reads.
FDiv(x, y, f) ==
    IF y.m = One THEN Round(Fl(x.neg # y.neg, x.m, x.e - y.e), f)
    ELSE Round(DivShifted(x, y, f.p + 2 + NatBitLen(y.m)), f)

\* x.trunc(), x.floor(), x.fract(): exact in every format
FTrunc(x) == IF x.e >= 0 THEN x ELSE Fl(x.neg, NatShr(x.m, 0 - x.e), 0)
FFloor(x) ==
    IF x.neg /\ x.e < 0 THEN ExactAdd(FTrunc(x), FNeg(FOne)) ELSE FTrunc(x)
FFract(x) == ExactAdd(x, FNeg(FTrunc(x)))

\* v as f32, v as f64: the natural v rounded to the format
FromNat(v, f) == Round(FInt(v), f)

\* the natural n, saturated at 2^w - 1
Saturate(n, w) == IF NatBitLen(n) > w THEN NatSub(NatPow2(w), One) ELSE n

\* x as u8, x as u32: toward zero, saturating at 0 and 2^w - 1
ToNat(x, w) == IF x.neg THEN Zero ELSE Saturate(NatShl(FTrunc(x).m, FTrunc(x).e), w)

(***************************************************************************)
(* src/src/arithmetic.rs, half_precision: u8 arithmetic in an f16.         *)
(* An f16 operation of the half crate is the f32 operation on the widened  *)
(* operands, rounded back to f16.                                          *)
(***************************************************************************)
half_U8_MODULUS == Round(FromNat(N(256), F32), F16)
half_U8_MODULUS_INV == Round(FDiv(FOne, FromNat(N(256), F32), F32), F16)
half_U8_ONE == Round(FOne, F16)

H16Add(x, y) == Round(FAdd(x, y, F32), F16)
H16Sub(x, y) == Round(FSub(x, y, F32), F16)
H16Mul(x, y) == Round(FMul(x, y, F32), F16)

\* U8::new(v), v a u8
half_U8_new(v) == Round(FromNat(v, F32), F16)

\* u8::from(U8), were the cast through i8, which stops at 127
half_U8_into_u8_i8(x) == ToNat(Round(x, F32), 7)

\* u8::from(U8)
half_U8_into_u8(x) == ToNat(Round(x, F32), 8)

\* U8::add, were the comparison a > MODULUS
half_U8_add_gt(self, rhs) ==
    LET a == H16Add(self, rhs)
    IN  IF FLess(half_U8_MODULUS, a) THEN H16Sub(a, half_U8_MODULUS) ELSE a

half_U8_add(self, rhs) ==
    LET a == H16Add(self, rhs)
    IN  IF FGeq(a, half_U8_MODULUS) THEN H16Sub(a, half_U8_MODULUS) ELSE a

\* the fused multiply add a * b + c, computed in f32 and rounded to f16
mad_f16(a, b, c) == Round(FMulAdd(Round(a, F32), Round(b, F32), Round(c, F32), F32), F16)

\* U8::mul up to e, were the rounding error l of the product left out
half_U8_mul_e_no_l(self, rhs) ==
    LET h == H16Mul(self, rhs)
        b == H16Mul(h, half_U8_MODULUS_INV)
        c == FTrunc(b)
    IN  mad_f16(FNeg(c), half_U8_MODULUS, h)

\* The steps of U8::mul up to the value e that is then normalized
half_U8_mul_e(self, rhs) ==
    LET h == H16Mul(self, rhs)
        l == mad_f16(self, rhs, FNeg(h))
        b == H16Mul(h, half_U8_MODULUS_INV)
        c == FTrunc(b)
        d == mad_f16(FNeg(c), half_U8_MODULUS, h)
    IN  H16Add(d, l)

\* the closing expression of U8::mul
half_U8_mul_normalize(e) ==
    IF FGeq(e, half_U8_MODULUS) THEN H16Sub(e, half_U8_MODULUS)
    ELSE IF FLess(e, FZero) THEN H16Add(e, half_U8_MODULUS)
    ELSE e

half_U8_mul(self, rhs) == half_U8_mul_normalize(half_U8_mul_e(self, rhs))

\* U32::new(v), v a u32: four U8 limbs, least significant first
half_U32_new(v) ==
    <<half_U8_new(NatLow(v, 8)),
      half_U8_new(NatLow(NatShr(v, 8), 8)),
      half_U8_new(NatLow(NatShr(v, 16), 8)),
      half_U8_new(NatLow(NatShr(v, 24), 8))>>

half_U32_add(self, rhs) ==
    LET M == half_U8_MODULUS
        s0 == H16Add(self[1], rhs[1])
        s1 == H16Add(self[2], rhs[2])
        s2 == H16Add(self[3], rhs[3])
        s3 == H16Add(self[4], rhs[4])
        c0 == FGeq(s0, M)
        l0 == IF c0 THEN H16Sub(s0, M) ELSE s0
        t1 == IF c0 THEN H16Add(s1, half_U8_ONE) ELSE s1
        c1 == FGeq(t1, M)
        l1 == IF c1 THEN H16Sub(t1, M) ELSE t1
        t2 == IF c1 THEN H16Add(s2, half_U8_ONE) ELSE s2
        c2 == FGeq(t2, M)
        l2 == IF c2 THEN H16Sub(t2, M) ELSE t2
        t3 == IF c2 THEN H16Add(s3, half_U8_ONE) ELSE s3
        l3 == IF FGeq(t3, M) THEN H16Sub(t3, M) ELSE t3
    IN  <<l0, l1, l2, l3>>

(***************************************************************************)
(* src/src/arithmetic.rs, single_precision: U16 in an f32, U32 as two      *)
(* 16-bit limbs, U31 as an 11-bit and a 20-bit limb.                       *)
(***************************************************************************)
single_U16_MODULUS == FromNat(NatPow2(16), F32)
single_U16_MODULUS_INV == FDiv(FOne, single_U16_MODULUS, F32)

\* the f32 literal of a small integer
L32(n) == FromNat(N(n), F32)

single_U16_new(v) == FromNat(v, F32)

single_U16_add(self, rhs) ==
    LET a == FAdd(self, rhs, F32)
    IN  IF FGeq(a, single_U16_MODULUS) THEN FSub(a, single_U16_MODULUS, F32)
        ELSE a

\* U16::mul up to e, were the rounding error l of the product left out
single_U16_mul_e_no_l(self, rhs) ==
    LET h == FMul(self, rhs, F32)
        b == FMul(h, single_U16_MODULUS_INV, F32)
        c == FTrunc(b)
    IN  FMulAdd(FNeg(c), single_U16_MODULUS, h, F32)

single_U16_mul_e(self, rhs) ==
    LET h == FMul(self, rhs, F32)
        l == FMulAdd(self, rhs, FNeg(h), F32)
        b == FMul(h, single_U16_MODULUS_INV, F32)
        c == FTrunc(b)
        d == FMulAdd(FNeg(c), single_U16_MODULUS, h, F32)
    IN  FAdd(d, l, F32)

\* the closing expression of U16::mul
single_U16_mul_normalize(e) ==
    IF FGeq(e, single_U16_MODULUS) THEN FSub(e, single_U16_MODULUS, F32)
    ELSE IF FLess(e, FZero) THEN FAdd(e, single_U16_MODULUS, F32)
    ELSE e

single_U16_mul(self, rhs) == single_U16_mul_normalize(single_U16_mul_e(self, rhs))

\* U32::new(v): <<low 16 bits, high 16 bits>>
single_U32_new(v) ==
    <<single_U16_new(NatLow(v, 16)), single_U16_new(NatLow(NatShr(v, 16), 16))>>

single_U32_add(self, rhs) ==
    LET M == single_U16_MODULUS
        s0 == FAdd(self[1], rhs[1], F32)
        s1 == FAdd(self[2], rhs[2], F32)
        c0 == FGeq(s0, M)
        l0 == IF c0 THEN FSub(s0, M, F32) ELSE s0
        t1 == IF c0 THEN FAdd(s1, L32(1), F32) ELSE s1
        l1 == IF FGeq(t1, M) THEN FSub(t1, M, F32) ELSE t1
    IN  <<l0, l1>>

\* [v1.trunc() / 16.0, v1.fract() * 16.0, v0.trunc() / 16.0, v0.fract() * 16.0]
single_U32_mul_digits(v0, v1) ==
    <<FDiv(FTrunc(v1), L32(16), F32),
      FMul(FFract(v1), L32(16), F32),
      FDiv(FTrunc(v0), L32(16), F32),
      FMul(FFract(v0), L32(16), F32)>>

\* the four sub-digits top[0..3] (here top[1..4]) of a U32, most significant first
single_U32_mul_split(x) ==
    single_U32_mul_digits(FDiv(x[1], L32(256), F32), FDiv(x[2], L32(256), F32))

\* the inner fn mul(a, b) of U32::mul, from h = a * b on
single_U32_mul_mul_h(a, b, h) ==
    FAdd(FMulAdd(FNeg(FTrunc(FMul(h, single_U16_MODULUS_INV, F32))),
                 single_U16_MODULUS, h, F32),
         FMulAdd(a, b, FNeg(h), F32),
         F32)

\* the inner fn mul(a, b) of U32::mul: d + l
single_U32_mul_mul(a, b) == single_U32_mul_mul_h(a, b, FMul(a, b, F32))

\* the four running totals <<first32, second32, third32, fourth32>> from the
\* products prod[i][j], here p[i + 1][j + 1]
single_U32_mul_rows(p, c256) ==
    <<FMulAdd(FFract(p[4][4]), c256,
          FAdd(FAdd(FMulAdd(FFract(p[1][1]), c256, FTrunc(p[1][2]), F32),
                    FMulAdd(FFract(p[2][2]), c256, FTrunc(p[2][3]), F32), F32),
               FMulAdd(FFract(p[3][3]), c256, FTrunc(p[3][4]), F32), F32), F32),
      FMulAdd(FFract(p[3][4]), c256,
          FAdd(FMulAdd(FFract(p[1][2]), c256, FTrunc(p[1][3]), F32),
               FMulAdd(FFract(p[2][3]), c256, FTrunc(p[2][4]), F32), F32), F32),
      FMulAdd(FFract(p[2][4]), c256,
          FMulAdd(FFract(p[1][3]), c256, FTrunc(p[1][4]), F32), F32),
      FMul(FFract(p[1][4]), c256, F32)>>

\* l1 as it is, were the conditional subtraction left out
single_U32_mul_wrap_none(l1, c65536) == l1

\* l1, less 65536 if it reached it
single_U32_mul_wrap(l1, c65536) ==
    IF FGeq(l1, c65536) THEN FSub(l1, c65536, F32) ELSE l1

\* the two limbs from v0 and v1
single_U32_mul_limbs(v0, v1, c65536) ==
    <<FMul(FFract(v0), c65536, F32),
      single_U32_mul_wrap(FMulAdd(FFract(v1), c65536, FTrunc(v0), F32), c65536)>>

\* the two limbs from <<first32, second32, third32, fourth32>>
single_U32_mul_fold(t, c256, c65536) ==
    single_U32_mul_limbs(FDiv(FMulAdd(t[3], c256, t[4], F32), c65536, F32),
                         FDiv(FMulAdd(t[1], c256, t[2], F32), c65536, F32),
                         c65536)

\* the ten products of the sub-digits that reach the low 32 bits; the six
\* entries the code leaves at 0.0 are never read
single_U32_mul_prod(top, bottom) ==
    <<<<single_U32_mul_mul(top[4], bottom[1]),
        single_U32_mul_mul(top[4], bottom[2]),
        single_U32_mul_mul(top[4], bottom[3]),
        single_U32_mul_mul(top[4], bottom[4])>>,
      <<FZero,
        single_U32_mul_mul(top[3], bottom[2]),
        single_U32_mul_mul(top[3], bottom[3]),
        single_U32_mul_mul(top[3], bottom[4])>>,
      <<FZero,
        FZero,
        single_U32_mul_mul(top[2], bottom[3]),
        single_U32_mul_mul(top[2], bottom[4])>>,
      <<FZero,
        FZero,
        FZero,
        single_U32_mul_mul(top[1], bottom[4])>>>>

single_U32_mul(self, rhs) ==
    single_U32_mul_fold(
        single_U32_mul_rows(
            single_U32_mul_prod(single_U32_mul_split(self),
                                single_U32_mul_split(rhs)),
            L32(256)),
        L32(256), L32(65536))

single_U31_MASK_11_BITS == FromNat(NatSub(NatPow2(11), One), F32)
single_U31_MASK_20_BITS == FromNat(NatSub(NatPow2(20), One), F32)

\* U31::new(v): <<v & MASK_11_BITS, (v >> 11) & MASK_20_BITS>>; the masks are
\* 2^11 - 1 and 2^20 - 1, so each & keeps the low bits
single_U31_new(v) ==
    <<FromNat(NatLow(v, NatBitLen(ToNat(single_U31_MASK_11_BITS, 32))), F32),
      FromNat(NatLow(NatShr(v, 11), NatBitLen(ToNat(single_U31_MASK_20_BITS, 32))), F32)>>

\* MASK_11_BITS + 1.0 and MASK_20_BITS + 1.0
single_U31_M11 == FAdd(single_U31_MASK_11_BITS, L32(1), F32)
single_U31_M20 == FAdd(single_U31_MASK_20_BITS, L32(1), F32)

\* l1, less MASK_20_BITS + 1.0 if it reached it
single_U31_wrap(l1, M20) == IF FGeq(l1, M20) THEN FSub(l1, M20, F32) ELSE l1

\* the two limbs, were the carry out of the low limb left out
single_U31_add_no_carry(l0, l1, M11) ==
    IF FGeq(l0, M11)
    THEN <<FSub(l0, M11, F32), single_U31_wrap(l1, single_U31_M20)>>
    ELSE <<l0, single_U31_wrap(l1, single_U31_M20)>>

\* the two limbs from the raw sums l0 and l1
single_U31_add_carry(l0, l1, M11) ==
    IF FGeq(l0, M11)
    THEN <<FSub(l0, M11, F32), single_U31_wrap(FAdd(l1, L32(1), F32), single_U31_M20)>>
    ELSE <<l0, single_U31_wrap(l1, single_U31_M20)>>

single_U31_add(self, rhs) ==
    single_U31_add_carry(FAdd(self[1], rhs[1], F32), FAdd(self[2], rhs[2], F32),
                         single_U31_M11)

\* the inner fn mul::<MODULUS>(a, b) of U31::mul, from h = a * b on; M is
\* MODULUS as f32
single_U31_mul_mul_h(M, a, b, h) ==
    FAdd(FMulAdd(FNeg(FTrunc(FMul(h, FDiv(L32(1), M, F32), F32))), M, h, F32),
         FMulAdd(a, b, FNeg(h), F32),
         F32)

\* the inner fn mul::<MODULUS>(a, b) of U31::mul, MODULUS a u32: d + l
single_U31_mul_mul(MODULUS, a, b) ==
    single_U31_mul_mul_h(FromNat(MODULUS, F32), a, b, FMul(a, b, F32))

\* (self.0[1] / 512.0).fract() * (512.0 * 64.0)
single_U31_mul_tmp_lha(self) ==
    FMul(FFract(FDiv(self[2], L32(512), F32)), FMul(L32(512), L32(64), F32), F32)

\* tmp_rhs, were it taken from the low limb rhs.0[0]
single_U31_mul_tmp_rhs_low(rhs) ==
    FMul(FFract(FDiv(rhs[1], L32(512), F32)), FMul(L32(512), L32(32), F32), F32)

\* (rhs.0[1] / 512.0).fract() * (512.0 * 32.0)
single_U31_mul_tmp_rhs(rhs) ==
    FMul(FFract(FDiv(rhs[2], L32(512), F32)), FMul(L32(512), L32(32), F32), F32)

\* U31::mul from tmp0 on; MOD is MASK_20_BITS as u32 + 1
single_U31_mul_tmp0(self, rhs, tmp0, MOD, M20) ==
    <<FMul(FFract(tmp0), single_U31_M11, F32),
      single_U31_wrap(
          FAdd(single_U31_wrap(
                   FAdd(FAdd(FTrunc(tmp0),
                             single_U31_mul_mul(MOD, self[1], rhs[2]), F32),
                        single_U31_mul_mul(MOD, self[2], rhs[1]), F32),
                   M20),
               single_U31_mul_mul(MOD, single_U31_mul_tmp_lha(self),
                                  single_U31_mul_tmp_rhs(rhs)),
               F32),
          M20)>>

single_U31_mul(self, rhs) ==
    single_U31_mul_tmp0(self, rhs,
        FDiv(FMul(self[1], rhs[1], F32), single_U31_M11, F32),
        NatAdd(ToNat(single_U31_MASK_20_BITS, 32), One),
        single_U31_M20)

(***************************************************************************)
(* src/src/arithmetic.rs, double_precision: U32 in an f64.                 *)
(***************************************************************************)
double_U32_MODULUS == FromNat(NatPow2(32), F64)
double_U32_MODULUS_INV == FDiv(FOne, double_U32_MODULUS, F64)

double_U32_new(v) == FromNat(v, F64)

double_U32_add(self, rhs) ==
    LET a == FAdd(self, rhs, F64)
    IN  IF FGeq(a, double_U32_MODULUS) THEN FSub(a, double_U32_MODULUS, F64)
        ELSE a

\* U32::mul up to e, were the rounding error l of the product left out
double_U32_mul_e_no_l(self, rhs) ==
    LET h == FMul(self, rhs, F64)
        b == FMul(h, double_U32_MODULUS_INV, F64)
        c == FTrunc(b)
    IN  FMulAdd(FNeg(c), double_U32_MODULUS, h, F64)

double_U32_mul_e(self, rhs) ==
    LET h == FMul(self, rhs, F64)
        l == FMulAdd(self, rhs, FNeg(h), F64)
        b == FMul(h, double_U32_MODULUS_INV, F64)
        c == FTrunc(b)
        d == FMulAdd(FNeg(c), double_U32_MODULUS, h, F64)
    IN  FAdd(d, l, F64)

\* the closing expression of U32::mul
double_U32_mul_normalize(e) ==
    IF FGeq(e, double_U32_MODULUS) THEN FSub(e, double_U32_MODULUS, F64)
    ELSE IF FLess(e, FZero) THEN FAdd(e, double_U32_MODULUS, F64)
    ELSE e

double_U32_mul(self, rhs) == double_U32_mul_normalize(double_U32_mul_e(self, rhs))

(***************************************************************************)
(* src/src/fp20.rs: the field of the pseudo-Mersenne prime                 *)
(* 0b111111111111111110111, in an f32, in a u32 and in an f64.             *)
(***************************************************************************)
\* the modulus, were it 2^21 - 33
fp20_MODULUS_bits_33 == NatSub(NatPow2(21), N(33))

\* 0b111111111111111110111: twenty-one bits, all set but bit 3
fp20_MODULUS_bits == NatSub(NatSub(NatPow2(21), One), NatPow2(3))

fp20_single_MODULUS == FromNat(fp20_MODULUS_bits, F32)
fp20_single_MODULUS_INV == FDiv(FOne, fp20_single_MODULUS, F32)

\* the debug_assert!(v < MODULUS as u32) of Fp::new
fp20_single_new_assert(v) == NatLess(v, ToNat(fp20_single_MODULUS, 32))
fp20_single_new(v) == FromNat(v, F32)

\* u32::from(Fp)
fp20_single_into_u32(x) == ToNat(x, 32)

fp20_single_add(self, rhs) ==
    LET a == FAdd(self, rhs, F32)
    IN  IF FGeq(a, fp20_single_MODULUS) THEN FSub(a, fp20_single_MODULUS, F32)
        ELSE a

\* the quotient estimate, were it b.round(): to nearest, halves away from zero
fp20_single_mul_c_round(self, rhs) ==
    FTrunc(ExactAdd(FMul(FMul(self, rhs, F32), fp20_single_MODULUS_INV, F32),
                    Fl(FALSE, One, -1)))

\* the quotient estimate c of Fp::mul
fp20_single_mul_c(self, rhs) ==
    FFloor(FMul(FMul(self, rhs, F32), fp20_single_MODULUS_INV, F32))

\* The steps of Fp::mul up to the value e that is then normalized
fp20_single_mul_e(self, rhs) ==
    LET h == FMul(self, rhs, F32)
        l == FMulAdd(self, rhs, FNeg(h), F32)
        c == fp20_single_mul_c(self, rhs)
        d == FMulAdd(FNeg(c), fp20_single_MODULUS, h, F32)
    IN  FAdd(d, l, F32)

\* e as it is, were both corrections left out
fp20_single_mul_unnormalized(e) == e

\* the closing expression of Fp::mul
fp20_single_mul_normalize(e) ==
    IF FGeq(e, fp20_single_MODULUS) THEN FSub(e, fp20_single_MODULUS, F32)
    ELSE IF FLess(e, FZero) THEN FAdd(e, fp20_single_MODULUS, F32)
    ELSE e

fp20_single_mul(self, rhs) == fp20_single_mul_normalize(fp20_single_mul_e(self, rhs))

\* integer: const MODULUS: u32
fp20_integer_MODULUS == fp20_MODULUS_bits

\* u32::next_power_of_two: the least power of two >= n, n > 0
next_power_of_two(n) ==
    IF n = NatPow2(NatBitLen(n) - 1) THEN n ELSE NatPow2(NatBitLen(n))

\* C, were the subtraction of MODULUS left out
fp20_integer_reduce_C_pow2 == next_power_of_two(fp20_integer_MODULUS)

\* const C: u32 = MODULUS.next_power_of_two() - MODULUS
fp20_integer_reduce_C ==
    NatSub(next_power_of_two(fp20_integer_MODULUS), fp20_integer_MODULUS)

\* reduce(a), a a u64, step by step.  u32 sums and products are kept to 32
\* bits as the release build keeps them; overflow tells whether one of them
\* left 32 bits (where the debug build panics).  corrections counts the
\* conditional subtractions taken.
fp20_integer_reduce_steps(a) ==
    LET C == fp20_integer_reduce_C
        hiC == NatMul(NatLow(NatShr(a, 21), 32), C)
        bWide == NatAdd(NatLow(hiC, 32), NatLow(NatLow(a, 32), 21))
        b == NatLow(bWide, 32)
        r0Mul == NatMul(NatShr(b, 21), C)
        r0Wide == NatAdd(NatLow(r0Mul, 32), NatLow(b, 21))
        r0 == NatLow(r0Wide, 32)
        p0Wide == NatAdd(r0, C)
        r_prime0 == NatLow(p0Wide, 32)
        first == NatLeq(NatPow2(21), r_prime0)
        r1 == NatSub(r_prime0, NatPow2(21))
        p1Wide == NatAdd(r1, C)
        r_prime1 == NatLow(p1Wide, 32)
        second == NatLeq(NatPow2(21), r_prime1)
    IN  [r |-> IF ~first THEN r0
               ELSE IF second THEN NatSub(r_prime1, NatPow2(21))
               ELSE r1,
         corrections |-> IF ~first THEN 0 ELSE IF second THEN 2 ELSE 1,
         overflow |-> \/ NatBitLen(hiC) > 32
                      \/ NatBitLen(bWide) > 32
                      \/ NatBitLen(r0Mul) > 32
                      \/ NatBitLen(r0Wide) > 32
                      \/ NatBitLen(p0Wide) > 32
                      \/ (first /\ NatBitLen(p1Wide) > 32)]

\* reduce(a), were the conditional subtractions left out: the two folds only
fp20_integer_reduce_folds(a) ==
    NatAdd(NatMul(NatShr(NatAdd(NatMul(NatShr(a, 21), fp20_integer_reduce_C),
                                NatLow(a, 21)), 21),
                  fp20_integer_reduce_C),
           NatLow(NatAdd(NatMul(NatShr(a, 21), fp20_integer_reduce_C),
                         NatLow(a, 21)), 21))

fp20_integer_reduce(a) == fp20_integer_reduce_steps(a).r

\* the debug_assert!(v < MODULUS) of Fp::new
fp20_integer_new_assert(v) == NatLess(v, fp20_integer_MODULUS)
fp20_integer_new(v) == v

fp20_integer_into_u32(x) == x

\* Fp::add, were the comparison a > MODULUS
fp20_integer_add_gt(self, rhs) ==
    LET a == NatLow(NatAdd(self, rhs), 32)
    IN  IF NatLess(fp20_integer_MODULUS, a) THEN NatSub(a, fp20_integer_MODULUS)
        ELSE a

fp20_integer_add(self, rhs) ==
    LET a == NatLow(NatAdd(self, rhs), 32)
    IN  IF NatLeq(fp20_integer_MODULUS, a) THEN NatSub(a, fp20_integer_MODULUS)
        ELSE a

\* reduce(self.0 as u64 * rhs.0 as u64)
fp20_integer_mul(self, rhs) ==
    fp20_integer_reduce(NatLow(NatMul(self, rhs), 64))

fp20_double_MODULUS == FromNat(fp20_MODULUS_bits, F64)
\* 1.0 / MODULUS, were it computed in f32
fp20_double_MODULUS_INV_f32 == FDiv(FOne, FromNat(fp20_MODULUS_bits, F32), F32)

fp20_double_MODULUS_INV == FDiv(FOne, fp20_double_MODULUS, F64)

\* the debug_assert!(v < MODULUS as u32) of Fp::new
fp20_double_new_assert(v) == NatLess(v, ToNat(fp20_double_MODULUS, 32))
fp20_double_new(v) == FromNat(v, F64)

fp20_double_into_u32(x) == ToNat(x, 32)

\* From<integer::Fp> for double_precision::Fp
fp20_double_from_integer(value) == fp20_double_new(value)

fp20_double_add(self, rhs) ==
    LET a == FAdd(self, rhs, F64)
    IN  IF FGeq(a, fp20_double_MODULUS) THEN FSub(a, fp20_double_MODULUS, F64)
        ELSE a

\* no correction follows d: the source has it commented out
fp20_double_mul(self, rhs) ==
    LET a == FMul(self, rhs, F64)
        b == FMul(a, fp20_double_MODULUS_INV, F64)
        c == FTrunc(b)
    IN  FSub(a, FMul(c, fp20_double_MODULUS, F64), F64)

(***************************************************************************)
(* The machine.  A run constructs two operands of one type from two native *)
(* integers, then applies one operation of that type to them.  Every       *)
(* function of the library is pure, so a state holds the operands, the     *)
(* operation applied and its result.                                       *)
(***************************************************************************)
VARIABLES
    ty,     \* the type of the operands
    x, y,   \* the native integers the operands are constructed from
    lhs,    \* new(x)
    rhs,    \* new(y)
    op,     \* "new" until an operation is applied, then that operation
    out,    \* the result of the operation
    n       \* the number of results that were used again as an operand

vars == <<ty, x, y, lhs, rhs, op, out, n>>

\* the number of generated operands tried for each type, beside the edge cases
NSamples == 12

\* An odd multiplier that spreads 1, 2, 3, ... over a range
Mix == NatMul(N(40503), NatMul(N(1000003), N(998244353)))

\* The i-th generated operand of w bits
Sample(i, w) == NatLow(NatMul(N(i), Mix), w)

\* Edge cases of a w-bit unsigned integer
Edge(w) ==
    {N(0), N(1), N(2), N(3), N(5), N(255),
     NatPow2(w \div 2), NatSub(NatPow2(w \div 2), One),
     NatPow2(w - 1), NatSub(NatPow2(w - 1), One),
     NatSub(NatPow2(w), N(2)), NatSub(NatPow2(w), One)}

Uint(w) == Edge(w) \cup {Sample(i, w) : i \in 1..NSamples}

\* For U31, operands whose cross product 29 * 867787 = 3 * 2^23 - 1 needs 25
\* bits: a product that f32 rounds up to a multiple of 2^20
U31Operands == Uint(31) \cup {N(29), NatShl(N(867787), 11)}

\* Field elements: integers in [0, p)
FpOperands ==
    {N(0), N(1), N(2), N(3), NatPow2(20), NatSub(NatPow2(20), One),
     NatShr(fp20_integer_MODULUS, 1),
     NatSub(fp20_integer_MODULUS, N(2)), NatSub(fp20_integer_MODULUS, One)}
      \cup {N(NatMod(Sample(i, 30), NatToInt(fp20_integer_MODULUS))) :
               i \in 1..NSamples}

LimbTypes == {"half_precision::U8", "single_precision::U16", "double_precision::U32"}
WideTypes == {"half_precision::U32", "single_precision::U32", "single_precision::U31"}
FieldTypes == {"fp20::integer::Fp", "fp20::single_precision::Fp",
               "fp20::double_precision::Fp"}

\* the bit width of the integers a type stands for
Width(t) ==
    CASE t = "half_precision::U8" -> 8
      [] t = "single_precision::U16" -> 16
      [] t = "single_precision::U31" -> 31
      [] OTHER -> 32

\* the legal arguments of new()
Operands(t) ==
    IF t \in FieldTypes THEN FpOperands
    ELSE IF t = "single_precision::U31" THEN U31Operands
    ELSE Uint(Width(t))

New(t, v) ==
    CASE t = "half_precision::U8" -> half_U8_new(v)
      [] t = "single_precision::U16" -> single_U16_new(v)
      [] t = "double_precision::U32" -> double_U32_new(v)
      [] t = "half_precision::U32" -> half_U32_new(v)
      [] t = "single_precision::U32" -> single_U32_new(v)
      [] t = "single_precision::U31" -> single_U31_new(v)
      [] t = "fp20::integer::Fp" -> fp20_integer_new(v)
      [] t = "fp20::single_precision::Fp" -> fp20_single_new(v)
      [] t = "fp20::double_precision::Fp" -> fp20_double_new(v)

\* the result of an operation that has not run
NoValue == <<>>

\* the outcome of todo!()
Panic == "panic"

InitOf(types) ==
    /\ ty \in types
    /\ x \in Operands(ty)
    /\ y \in Operands(ty)
    /\ lhs = New(ty, x)
    /\ rhs = New(ty, y)
    /\ op = "new"
    /\ out = NoValue
    /\ n = 0

\* self + rhs and self * rhs of type t, with result r
Apply(t, name, r) ==
    /\ ty = t
    /\ op = "new"
    /\ op' = name
    /\ out' = r
    /\ UNCHANGED <<ty, x, y, lhs, rhs, n>>

half_U8_Add == Apply("half_precision::U8", "add", half_U8_add(lhs, rhs))
half_U8_Mul == Apply("half_precision::U8", "mul", half_U8_mul(lhs, rhs))
single_U16_Add == Apply("single_precision::U16", "add", single_U16_add(lhs, rhs))
single_U16_Mul == Apply("single_precision::U16", "mul", single_U16_mul(lhs, rhs))
double_U32_Add == Apply("double_precision::U32", "add", double_U32_add(lhs, rhs))
double_U32_Mul == Apply("double_precision::U32", "mul", double_U32_mul(lhs, rhs))

half_U32_Add == Apply("half_precision::U32", "add", half_U32_add(lhs, rhs))
\* U32::mul, were it to hand back its left operand
half_U32_Mul_self == Apply("half_precision::U32", "mul", lhs)

\* fn mul(self, rhs) -> Self::Output { todo!() }
half_U32_Mul == Apply("half_precision::U32", "mul", Panic)
single_U32_Add == Apply("single_precision::U32", "add", single_U32_add(lhs, rhs))
single_U32_Mul == Apply("single_precision::U32", "mul", single_U32_mul(lhs, rhs))
single_U31_Add == Apply("single_precision::U31", "add", single_U31_add(lhs, rhs))
single_U31_Mul == Apply("single_precision::U31", "mul", single_U31_mul(lhs, rhs))

fp20_integer_Add == Apply("fp20::integer::Fp", "add", fp20_integer_add(lhs, rhs))
fp20_integer_Mul == Apply("fp20::integer::Fp", "mul", fp20_integer_mul(lhs, rhs))
fp20_single_Add == Apply("fp20::single_precision::Fp", "add", fp20_single_add(lhs, rhs))
fp20_single_Mul == Apply("fp20::single_precision::Fp", "mul", fp20_single_mul(lhs, rhs))
fp20_double_Add == Apply("fp20::double_precision::Fp", "add", fp20_double_add(lhs, rhs))
fp20_double_Mul == Apply("fp20::double_precision::Fp", "mul", fp20_double_mul(lhs, rhs))

\* The single limbs of src/src/arithmetic.rs
InitLimb == InitOf(LimbTypes)
NextLimb ==
    \/ half_U8_Add
    \/ half_U8_Mul
    \/ single_U16_Add
    \/ single_U16_Mul
    \/ double_U32_Add
    \/ double_U32_Mul
SpecLimb == InitLimb /\ [][NextLimb]_vars

\* The wide integers of src/src/arithmetic.rs
InitWide == InitOf(WideTypes)
NextWide ==
    \/ half_U32_Add
    \/ half_U32_Mul
    \/ single_U32_Add
    \/ single_U32_Mul
    \/ single_U31_Add
    \/ single_U31_Mul
SpecWide == InitWide /\ [][NextWide]_vars

\* The field of src/src/fp20.rs
InitField == InitOf(FieldTypes)
NextField ==
    \/ fp20_integer_Add
    \/ fp20_integer_Mul
    \/ fp20_single_Add
    \/ fp20_single_Mul
    \/ fp20_double_Add
    \/ fp20_double_Mul
SpecField == InitField /\ [][NextField]_vars

\* The conversions back to a native integer: u8::from(U8) and the three
\* u32::from(Fp) of src/src/fp20.rs
NextInto ==
    \/ Apply("half_precision::U8", "into", half_U8_into_u8(lhs))
    \/ Apply("fp20::integer::Fp", "into", fp20_integer_into_u32(lhs))
    \/ Apply("fp20::single_precision::Fp", "into", fp20_single_into_u32(lhs))
    \/ Apply("fp20::double_precision::Fp", "into", fp20_double_into_u32(lhs))

\* how many results may be used again as an operand
MaxReuse == 1

\* Sequences of operations on the wide integers: a result is a value like any
\* other, and the caller may pass it on as the left or the right operand of
\* the next operation.
NextSeq ==
    \/ NextWide
    \/ /\ op \in {"add", "mul"}
       /\ out # Panic
       /\ n < MaxReuse
       /\ lhs' = out
       /\ op' = "new"
       /\ out' = NoValue
       /\ n' = n + 1
       /\ UNCHANGED <<ty, x, y, rhs>>
    \/ /\ op \in {"add", "mul"}
       /\ out # Panic
       /\ n < MaxReuse
       /\ rhs' = out
       /\ op' = "new"
       /\ out' = NoValue
       /\ n' = n + 1
       /\ UNCHANGED <<ty, x, y, lhs>>
SpecSeq == InitWide /\ [][NextSeq]_vars

\* The constructors that take a u32, before anything is constructed: new(x) for
\* any u32 x.  In a debug build debug_assert! panics when its condition fails;
\* a release build compiles it out.  U31::new has no assertion.
InitNew ==
    /\ ty \in FieldTypes \cup {"single_precision::U31"}
    /\ x \in Uint(32) \cup FpOperands
              \cup {fp20_integer_MODULUS, NatAdd(fp20_integer_MODULUS, One)}
    /\ y = x
    /\ lhs = NoValue
    /\ rhs = NoValue
    /\ op = "new"
    /\ out = NoValue
    /\ n = 0
NextNew ==
    \/ Apply("fp20::integer::Fp", "new (debug)",
             IF fp20_integer_new_assert(x) THEN fp20_integer_new(x) ELSE Panic)
    \/ Apply("fp20::integer::Fp", "new (release)", fp20_integer_new(x))
    \/ Apply("fp20::single_precision::Fp", "new (debug)",
             IF fp20_single_new_assert(x) THEN fp20_single_new(x) ELSE Panic)
    \/ Apply("fp20::single_precision::Fp", "new (release)", fp20_single_new(x))
    \/ Apply("fp20::double_precision::Fp", "new (debug)",
             IF fp20_double_new_assert(x) THEN fp20_double_new(x) ELSE Panic)
    \/ Apply("fp20::double_precision::Fp", "new (release)", fp20_double_new(x))
    \/ Apply("single_precision::U31", "new (debug)", single_U31_new(x))
    \/ Apply("single_precision::U31", "new (release)", single_U31_new(x))
SpecNew == InitNew /\ [][NextNew]_vars

\* The field wrappers of src/src/field.rs
NumericTypes == {"field::numeric::double_precision::Fp",
                 "field::numeric::single_precision::Fp",
                 "field::numeric::half_precision::Fp"}

\* Every add, mul and From<u32> of src/src/field.rs is todo!(), which reads
\* none of its arguments
NextTodo ==
    \/ Apply("field::numeric::double_precision::Fp", "add", Panic)
    \/ Apply("field::numeric::double_precision::Fp", "mul", Panic)
    \/ Apply("field::numeric::double_precision::Fp", "from", Panic)
    \/ Apply("field::numeric::single_precision::Fp", "add", Panic)
    \/ Apply("field::numeric::single_precision::Fp", "mul", Panic)
    \/ Apply("field::numeric::single_precision::Fp", "from", Panic)
    \/ Apply("field::numeric::half_precision::Fp", "add", Panic)
    \/ Apply("field::numeric::half_precision::Fp", "mul", Panic)
    \/ Apply("field::numeric::half_precision::Fp", "from", Panic)

\* The whole library.  No value of a field wrapper can be built, From<u32>
\* being todo!(): its operands are left open, and x is the argument of from.
Init ==
    \/ InitOf(LimbTypes \cup WideTypes \cup FieldTypes)
    \/ /\ ty \in NumericTypes
       /\ x \in Uint(32)
       /\ y \in Uint(32)
       /\ lhs = NoValue
       /\ rhs = NoValue
       /\ op = "new"
       /\ out = NoValue
       /\ n = 0
Next == NextLimb \/ NextWide \/ NextField \/ NextInto \/ NextTodo
Spec == Init /\ [][Next]_vars

(***************************************************************************)
(* C1: the multiply of U8 (f16, M = 256) and of U16 (f32, M = 65536)       *)
(* returns, for all a, b in [0, M), exactly the limb holding (a * b) mod M.*)
(***************************************************************************)
C1_LimbMul ==
    (op = "mul" /\ ty \in {"half_precision::U8", "single_precision::U16"})
        => out = New(ty, NatLow(NatMul(x, y), Width(ty)))

\* U8: 255 * 255 = 65025, which f16 cannot hold, comes out as 1
C1_Witness ==
    /\ ty = "half_precision::U8" /\ op = "mul"
    /\ x = N(255) /\ y = N(255)
    /\ out = half_U8_new(N(1))

(***************************************************************************)
(* C2: the multiply of double_precision::U32 (f64, M = 2^32) returns, for  *)
(* all a, b in [0, 2^32), exactly the limb holding (a * b) mod 2^32.       *)
(***************************************************************************)
C2_DoubleMul ==
    (op = "mul" /\ ty = "double_precision::U32") => out = New(ty, NatLow(NatMul(x, y), Width(ty)))

\* (2^32 - 1)^2, which f64 cannot hold, comes out as 1
C2_Witness ==
    /\ ty = "double_precision::U32" /\ op = "mul"
    /\ x = NatSub(NatPow2(32), One) /\ y = x
    /\ out = double_U32_new(N(1))

(***************************************************************************)
(* C3: the add of U8, U16 and double_precision::U32 returns, for all a, b  *)
(* in [0, M), exactly the limb holding (a + b) mod M, and the raw sum s    *)
(* has 0 <= s < 2M.                                                        *)
(***************************************************************************)
C3_LimbAdd ==
    /\ (op = "add" /\ ty \in LimbTypes) =>
           out = New(ty, NatLow(NatAdd(x, y), Width(ty)))
    /\ (op = "add" /\ ty = "half_precision::U8") =>
           /\ FGeq(H16Add(lhs, rhs), FZero)
           /\ FLess(H16Add(lhs, rhs), H16Add(half_U8_MODULUS, half_U8_MODULUS))
    /\ (op = "add" /\ ty = "single_precision::U16") =>
           /\ FGeq(FAdd(lhs, rhs, F32), FZero)
           /\ FLess(FAdd(lhs, rhs, F32),
                    FAdd(single_U16_MODULUS, single_U16_MODULUS, F32))
    /\ (op = "add" /\ ty = "double_precision::U32") =>
           /\ FGeq(FAdd(lhs, rhs, F64), FZero)
           /\ FLess(FAdd(lhs, rhs, F64),
                    FAdd(double_U32_MODULUS, double_U32_MODULUS, F64))

\* U8: 255 + 2 comes out as 1
C3_Witness ==
    /\ ty = "half_precision::U8" /\ op = "add"
    /\ x = N(255) /\ y = N(2)
    /\ out = half_U8_new(N(1))

(***************************************************************************)
(* C4: single_precision::U32::new(a) * U32::new(b) equals                  *)
(* U32::new((a * b) mod 2^32) for all 32-bit a, b, limb for limb, both     *)
(* limbs integers in [0, 65536).                                           *)
(***************************************************************************)
C4_U32Mul ==
    (op = "mul" /\ ty = "single_precision::U32") =>
        /\ out = New(ty, NatLow(NatMul(x, y), Width(ty)))
        /\ "m" \in DOMAIN out[1] /\ ~out[1].neg /\ out[1].e >= 0
               /\ NatBitLen(NatShl(out[1].m, out[1].e)) <= 16
        /\ "m" \in DOMAIN out[2] /\ ~out[2].neg /\ out[2].e >= 0
               /\ NatBitLen(NatShl(out[2].m, out[2].e)) <= 16

\* 0xFFFFFFFF * 0xFFFFFFFF comes out as the limbs of 1
C4_Witness ==
    /\ ty = "single_precision::U32" /\ op = "mul"
    /\ x = NatSub(NatPow2(32), One) /\ y = x
    /\ out = <<single_U16_new(N(1)), single_U16_new(N(0))>>

(***************************************************************************)
(* C5: wide(a) + wide(b) equals wide((a + b) mod 2^W), limb for limb, for  *)
(* half_precision::U32 (W = 32), single_precision::U32 (W = 32) and        *)
(* single_precision::U31 (W = 31); the carry out of the top limb is        *)
(* dropped.                                                                *)
(***************************************************************************)
C5_WideAdd ==
    (op = "add" /\ ty \in WideTypes) => out = New(ty, NatLow(NatAdd(x, y), Width(ty)))

\* four 8-bit limbs: 0xFFFFFFFF + 2 carries through every limb and comes out
\* as the limbs of 1
C5_Witness ==
    /\ ty = "half_precision::U32" /\ op = "add"
    /\ x = NatSub(NatPow2(32), One) /\ y = N(2)
    /\ out = <<half_U8_new(N(1)), half_U8_new(N(0)),
               half_U8_new(N(0)), half_U8_new(N(0))>>

(***************************************************************************)
(* C6: U31::new(a) * U31::new(b) equals U31::new((a * b) mod 2^31) for all *)
(* a, b in [0, 2^31), limb for limb, the low limb in [0, 2^11) and the     *)
(* high limb in [0, 2^20).                                                 *)
(***************************************************************************)
C6_U31Mul ==
    (op = "mul" /\ ty = "single_precision::U31") =>
        /\ out = New(ty, NatLow(NatMul(x, y), Width(ty)))
        /\ "m" \in DOMAIN out[1] /\ ~out[1].neg /\ out[1].e >= 0
               /\ NatBitLen(NatShl(out[1].m, out[1].e)) <= 11
        /\ "m" \in DOMAIN out[2] /\ ~out[2].neg /\ out[2].e >= 0
               /\ NatBitLen(NatShl(out[2].m, out[2].e)) <= 20

(***************************************************************************)
(* C7: integer::Fp::new(a) * Fp::new(b) equals (a * b) mod p and lies in   *)
(* [0, p) for all a, b in [0, p), p the MODULUS of the code; a = 0 gives   *)
(* 0 and a = b = p - 1 gives 1.                                            *)
(***************************************************************************)
C7_IntegerMul ==
    (op = "mul" /\ ty = "fp20::integer::Fp") =>
        /\ out = New(ty, N(NatMod(NatMul(x, y), NatToInt(fp20_integer_MODULUS))))
        /\ NatLess(out, fp20_integer_MODULUS)
        /\ x = Zero => out = Zero
        /\ (x = NatSub(fp20_integer_MODULUS, One) /\ y = x) => out = One

\* (p - 1) * (p - 1) comes out as 1
C7_Witness ==
    /\ ty = "fp20::integer::Fp" /\ op = "mul"
    /\ x = NatSub(fp20_integer_MODULUS, One) /\ y = x
    /\ out = One

(***************************************************************************)
(* C8: fp20::single_precision::Fp::new(a) * Fp::new(b) equals              *)
(* Fp::new((a * b) mod p) for all a, b in [0, p), p = 2097143.             *)
(***************************************************************************)
C8_SingleMul ==
    (op = "mul" /\ ty = "fp20::single_precision::Fp") =>
        /\ NatToInt(fp20_integer_MODULUS) = 2097143
        /\ out = New(ty, N(NatMod(NatMul(x, y), NatToInt(fp20_integer_MODULUS))))

\* (p - 1) * (p - 1), which f32 cannot hold, comes out as 1
C8_Witness ==
    /\ ty = "fp20::single_precision::Fp" /\ op = "mul"
    /\ x = NatSub(fp20_integer_MODULUS, One) /\ y = x
    /\ out = fp20_single_new(N(1))

(***************************************************************************)
(* C9: fp20::double_precision::Fp::new(a) * Fp::new(b) equals              *)
(* Fp::new((a * b) mod p), and equals integer::Fp::new(a) * Fp::new(b)     *)
(* converted to the double-precision type, for all a, b in [0, p).         *)
(***************************************************************************)
C9_DoubleMul ==
    (op = "mul" /\ ty = "fp20::double_precision::Fp") =>
        /\ out = New(ty, N(NatMod(NatMul(x, y), NatToInt(fp20_integer_MODULUS))))
        /\ out = fp20_double_from_integer(
                     fp20_integer_mul(fp20_integer_new(x), fp20_integer_new(y)))

\* (p - 1) * (p - 1) comes out as 1 with no correction step
C9_Witness ==
    /\ ty = "fp20::double_precision::Fp" /\ op = "mul"
    /\ x = NatSub(fp20_integer_MODULUS, One) /\ y = x
    /\ out = fp20_double_new(N(1))

(***************************************************************************)
(* C10: the add of fp20::integer::Fp, fp20::single_precision::Fp and       *)
(* fp20::double_precision::Fp returns, for all a, b in [0, p), the value   *)
(* holding (a + b) mod p.                                                  *)
(***************************************************************************)
C10_FieldAdd ==
    (op = "add" /\ ty \in FieldTypes) => out = New(ty, N(NatMod(NatAdd(x, y), NatToInt(fp20_integer_MODULUS))))

\* integer: (p - 1) + (p - 1) takes the subtraction and comes out as p - 2
C10_Witness ==
    /\ ty = "fp20::integer::Fp" /\ op = "add"
    /\ x = NatSub(fp20_integer_MODULUS, One) /\ y = x
    /\ out = NatSub(fp20_integer_MODULUS, N(2))


(***************************************************************************)
(* C11: converting a freshly constructed value back to a native integer    *)
(* returns the integer it was constructed from: u8::from(U8::new(v)) = v   *)
(* for every u8 v, and u32::from(Fp::new(v)) = v for every v in [0, p),    *)
(* for the integer, single-precision and double-precision Fp.              *)
(***************************************************************************)
C11_RoundTrip ==
    (op = "into" /\ ty \in {"half_precision::U8"} \cup FieldTypes) => out = x

\* single-precision Fp: p - 1, a 21-bit integer, comes back from its f32
C11_Witness ==
    /\ ty = "fp20::single_precision::Fp" /\ op = "into"
    /\ x = NatSub(fp20_integer_MODULUS, One)
    /\ lhs = fp20_single_new(x)
    /\ out = NatSub(fp20_integer_MODULUS, One)

(***************************************************************************)
(* C12: every unimplemented operation ends in a panic and never returns a  *)
(* value, for all inputs: the multiply of the 4x8-bit half_precision::U32  *)
(* and every add, multiply and From<u32> of the field wrappers.            *)
(***************************************************************************)
C12_TodoPanics ==
    /\ (ty = "half_precision::U32" /\ op = "mul") => out = Panic
    /\ (ty \in NumericTypes /\ op \in {"add", "mul", "from"}) => out = Panic
    /\ (ty \in NumericTypes /\ op = "new") => out = NoValue

\* the 4x8-bit multiply of 0xFFFFFFFF by 2 panics
C12_Witness ==
    /\ ty = "half_precision::U32" /\ op = "mul"
    /\ x = NatSub(NatPow2(32), One) /\ y = N(2)
    /\ out = Panic

(***************************************************************************)
(* C13: in a debug build, construction from a u32 that is not canonically  *)
(* reduced is rejected: the three fp20 Fp::new reject every v >= p and     *)
(* U31::new rejects every v >= 2^31; none builds a value from such a v.    *)
(***************************************************************************)
C13_NewValidates ==
    op = "new (debug)" =>
        /\ (ty \in FieldTypes /\ NatLeq(fp20_integer_MODULUS, x)) => out = Panic
        /\ (ty = "single_precision::U31" /\ NatLeq(NatPow2(31), x)) => out = Panic

(***************************************************************************)
(* C14: starting from values built by new() from legal integers, after any *)
(* sequence of add and multiply on single_precision::U32 and U31 and of    *)
(* add on half_precision::U32, every limb of every result is an integer    *)
(* with 0 <= limb < the limb's modulus: 2^16, 2^11 and 2^20, 2^8.          *)
(***************************************************************************)
\* v is an integer with 0 <= v < 2^bits
C14_IsLimb(v, bits) ==
    /\ "m" \in DOMAIN v
    /\ ~v.neg
    /\ v.e >= 0
    /\ NatBitLen(NatShl(v.m, v.e)) <= bits

\* v is a value of type ty with every limb in range
C14_InRange(v) ==
    /\ ty = "half_precision::U32" => \A i \in 1..4 : C14_IsLimb(v[i], 8)
    /\ ty = "single_precision::U32" => \A i \in 1..2 : C14_IsLimb(v[i], 16)
    /\ ty = "single_precision::U31" => C14_IsLimb(v[1], 11) /\ C14_IsLimb(v[2], 20)

C14_LimbInvariant ==
    /\ C14_InRange(lhs)
    /\ C14_InRange(rhs)
    /\ (op \in {"add", "mul"} /\ out # Panic) => C14_InRange(out)

(***************************************************************************)
(* C15: the pseudo-Mersenne modulus is p = 2^21 - 33 = 2097143, and the    *)
(* fold constant of reduce is C = nextPowerOfTwo(p) - p = 33.              *)
(***************************************************************************)
C15_ModulusAndC33 ==
    (op = "mul" /\ ty = "fp20::integer::Fp") =>
        /\ fp20_integer_MODULUS = NatSub(NatPow2(21), N(33))
        /\ NatToInt(fp20_integer_MODULUS) = 2097143
        /\ fp20_integer_reduce_C
             = NatSub(next_power_of_two(fp20_integer_MODULUS), fp20_integer_MODULUS)
        /\ fp20_integer_reduce_C = N(33)

(***************************************************************************)
(* C15, amended: the pseudo-Mersenne modulus is p = 2^21 - 9 = 2097143,    *)
(* and the fold constant of reduce is C = nextPowerOfTwo(p) - p = 9, with  *)
(* 2^21 congruent to C modulo p.                                           *)
(***************************************************************************)
C15_ModulusAndC9 ==
    (op = "mul" /\ ty = "fp20::integer::Fp") =>
        /\ fp20_integer_MODULUS = NatSub(NatPow2(21), N(9))
        /\ NatToInt(fp20_integer_MODULUS) = 2097143
        /\ next_power_of_two(fp20_integer_MODULUS) = NatPow2(21)
        /\ fp20_integer_reduce_C
             = NatSub(next_power_of_two(fp20_integer_MODULUS), fp20_integer_MODULUS)
        /\ fp20_integer_reduce_C = N(9)
        /\ NatMod(NatPow2(21), NatToInt(fp20_integer_MODULUS)) = 9

\* 2^20 * 2 = 2^21 folds to C: the product comes out as 9
C15_Witness ==
    /\ ty = "fp20::integer::Fp" /\ op = "mul"
    /\ x = NatPow2(20) /\ y = N(2)
    /\ out = fp20_integer_reduce_C
    /\ out = N(9)

(***************************************************************************)
(* C16: in the multiply of U8, U16, double_precision::U32 and              *)
(* fp20::single_precision::Fp, for all legal a, b the value e = d + l      *)
(* before normalization equals a * b - q * M exactly, q being the quotient *)
(* estimate c, and -M <= e < 2M, so that one correction in each direction  *)
(* leaves a value in [0, M).                                               *)
(***************************************************************************)
\* e is lhs * rhs - c * M in exact arithmetic, and -M <= e < 2M
C16_Exact(e, c, M) ==
    /\ e = ExactAdd(ExactMul(lhs, rhs), FNeg(ExactMul(c, M)))
    /\ FGeq(e, FNeg(M))
    /\ FLess(e, ExactAdd(M, M))

C16_PreNormalization ==
    /\ (op = "mul" /\ ty = "half_precision::U8") =>
           /\ C16_Exact(half_U8_mul_e(lhs, rhs),
                        FTrunc(H16Mul(H16Mul(lhs, rhs), half_U8_MODULUS_INV)),
                        half_U8_MODULUS)
           /\ FGeq(out, FZero) /\ FLess(out, half_U8_MODULUS)
    /\ (op = "mul" /\ ty = "single_precision::U16") =>
           /\ C16_Exact(single_U16_mul_e(lhs, rhs),
                        FTrunc(FMul(FMul(lhs, rhs, F32), single_U16_MODULUS_INV, F32)),
                        single_U16_MODULUS)
           /\ FGeq(out, FZero) /\ FLess(out, single_U16_MODULUS)
    /\ (op = "mul" /\ ty = "double_precision::U32") =>
           /\ C16_Exact(double_U32_mul_e(lhs, rhs),
                        FTrunc(FMul(FMul(lhs, rhs, F64), double_U32_MODULUS_INV, F64)),
                        double_U32_MODULUS)
           /\ FGeq(out, FZero) /\ FLess(out, double_U32_MODULUS)
    /\ (op = "mul" /\ ty = "fp20::single_precision::Fp") =>
           /\ C16_Exact(fp20_single_mul_e(lhs, rhs),
                        fp20_single_mul_c(lhs, rhs),
                        fp20_single_MODULUS)
           /\ FGeq(out, FZero) /\ FLess(out, fp20_single_MODULUS)

\* U16: 65535 * 65535, where h is rounded and e = 1 is rebuilt from d and l
C16_Witness ==
    /\ ty = "single_precision::U16" /\ op = "mul"
    /\ x = NatSub(NatPow2(16), One) /\ y = x
    /\ FMul(lhs, rhs, F32) # ExactMul(lhs, rhs)
    /\ single_U16_mul_e(lhs, rhs) = FOne
    /\ out = FOne

(***************************************************************************)
(* C17: the helper mul::<2^20>(a, b) inside U31::mul returns a * b % 2^20, *)
(* a value in [0, 2^20), for all integers a, b in [0, 2^20).  It is stated *)
(* of the three calls U31::mul makes, whose arguments are such integers.   *)
(***************************************************************************)
\* mul::<2^20>(a, b) is the f32 of (a * b) mod 2^20
C17_Call(a, b) ==
    single_U31_mul_mul(NatPow2(20), a, b)
        = FromNat(NatLow(NatMul(ToNat(a, 32), ToNat(b, 32)), 20), F32)

C17_InnerMul ==
    (op = "mul" /\ ty = "single_precision::U31") =>
        /\ C17_Call(lhs[1], rhs[2])
        /\ C17_Call(lhs[2], rhs[1])
        /\ C17_Call(single_U31_mul_tmp_lha(lhs), single_U31_mul_tmp_rhs(rhs))

(***************************************************************************)
(* C18: fp20::single_precision::Fp multiply returns the same value for all *)
(* a, b in [0, p) when b.floor() is replaced by b.trunc(), the estimate    *)
(* b = h * fl(1/p) never being negative.                                   *)
(***************************************************************************)
\* the estimate b of Fp::mul
C18_b == FMul(FMul(lhs, rhs, F32), fp20_single_MODULUS_INV, F32)

\* Fp::mul with c for its quotient estimate
C18_mul_with(c) ==
    fp20_single_mul_normalize(
        FAdd(FMulAdd(FNeg(c), fp20_single_MODULUS, FMul(lhs, rhs, F32), F32),
             FMulAdd(lhs, rhs, FNeg(FMul(lhs, rhs, F32)), F32),
             F32))

C18_FloorIsTrunc ==
    (op = "mul" /\ ty = "fp20::single_precision::Fp") =>
        /\ ~C18_b.neg
        /\ fp20_single_mul_c(lhs, rhs) = FTrunc(C18_b)
        /\ out = C18_mul_with(FTrunc(C18_b))

\* 3 * (2^20 - 1): the estimate is about 1.5, which floor and trunc both take
\* to 1
C18_Witness ==
    /\ ty = "fp20::single_precision::Fp" /\ op = "mul"
    /\ x = N(3) /\ y = NatSub(NatPow2(20), One)
    /\ C18_b.e < 0
    /\ FTrunc(C18_b) = FOne
    /\ out = fp20_single_new(N(1048582))

(***************************************************************************)
(* C19: in integer::reduce, for every a = x * y with x, y in [0, p), no    *)
(* intermediate u32 computation overflows and at most one conditional      *)
(* correction is taken: the inner branch, return r_prime - 2^21, is never   *)
(* reached.                                                                *)
(***************************************************************************)
\* the steps of reduce on the product of the operands
C19_steps == fp20_integer_reduce_steps(NatLow(NatMul(lhs, rhs), 64))

C19_ReduceSafe ==
    (op = "mul" /\ ty = "fp20::integer::Fp") =>
        /\ ~C19_steps.overflow
        /\ C19_steps.corrections <= 1
        /\ out = C19_steps.r

\* a product whose two folds leave a value of at least p, so that the one
\* correction is taken
C19_Witness ==
    /\ ty = "fp20::integer::Fp" /\ op = "mul"
    /\ C19_steps.corrections = 1
    /\ ~C19_steps.overflow
    /\ out = C19_steps.r

(***************************************************************************)
(* C20: wide multiply is commutative: x * y = y * x limb for limb, for all *)
(* legal values of single_precision::U32 and of single_precision::U31,     *)
(* where the left operand's low nine high-limb bits are scaled by 64 and   *)
(* the right operand's by 32.                                              *)
(***************************************************************************)
C20_MulCommutes ==
    /\ (op = "mul" /\ ty = "single_precision::U32") =>
           out = single_U32_mul(rhs, lhs)
    /\ (op = "mul" /\ ty = "single_precision::U31") =>
           out = single_U31_mul(rhs, lhs)

\* U31: (2^31 - 1) * (2^31 - 2), different operands whose scaled parts tmp_lha
\* and tmp_rhs are both non-zero, comes out as 2 either way round
C20_Witness ==
    /\ ty = "single_precision::U31" /\ op = "mul"
    /\ x = NatSub(NatPow2(31), One) /\ y = NatSub(NatPow2(31), N(2))
    /\ single_U31_mul_tmp_lha(lhs) # FZero
    /\ single_U31_mul_tmp_rhs(rhs) # FZero
    /\ single_U31_mul_tmp_lha(lhs) # single_U31_mul_tmp_rhs(rhs)
    /\ out = single_U31_new(N(2))
    /\ out = single_U31_mul(rhs, lhs)

=============================================================================
